---- MODULE Spec2Model ----
(***************************************************************************)
(* Model of src/lib/sceneManagement.ts: render(), update() and             *)
(* updateProjectorChildren() reconciling a scene (one projector with a     *)
(* flat list of widget identifiers) against the per-registry RenderState.  *)
(*                                                                         *)
(* One registry is modelled.  Key objects, projector instances and widget  *)
(* instances live in heaps (sequences indexed by object identity).  The    *)
(* registry's getWidget() is the environment: every call is a pending      *)
(* promise that later fulfils with a newly constructed widget instance or  *)
(* rejects.  Every promise callback of the source is one action.           *)
(***************************************************************************)
EXTENDS Integers, Sequences, FiniteSets, TLC

\* ---- bounds ----
MaxRenders == 2
WideRenders == 1
SharedRenders == 2

\* ---- inputs ----
Roots == {"r1", "r2"}

\* The append lists of the scenes handed to render(): empty, single, distinct,
\* swapped and duplicated identifiers.
Appends ==
    {<<>>, <<"A">>, <<"A", "B">>, <<"B", "A">>, <<"A", "A">>}

\* Longer append lists, for the completion orders of three resolutions.
WideAppends ==
    {<<"A", "B", "C">>, <<"C", "A", "B">>, <<"A", "B", "A">>}

\* The SceneElement values handed to render(): a SceneProjector with its append
\* list, or a bare SceneWidget.
Trees ==
    {[projector |-> TRUE, append |-> s, widget |-> ""] : s \in Appends}
    \cup {[projector |-> FALSE, append |-> <<>>, widget |-> "A"]}

\* Append lists rendered against a registry that may hand out an instance again.
SharedAppends ==
    {<<"A">>, <<"A", "A">>}

SharedTrees ==
    {[projector |-> TRUE, append |-> s, widget |-> ""] : s \in SharedAppends}
    \cup {[projector |-> FALSE, append |-> <<>>, widget |-> "A"]}

WideTrees ==
    {[projector |-> TRUE, append |-> s, widget |-> ""] : s \in WideAppends}
    \cup {[projector |-> FALSE, append |-> <<>>, widget |-> "A"]}

\* Mutant: every element passes for a projector.
isSceneProjector_any(element) == element.projector \in BOOLEAN

isSceneProjector(element) == element.projector = TRUE

\* ---- class Counter ----
\* A string `${prefix}.${count}` is the sequence of its dot-separated numbers.
Counter(prefix) == [prefix |-> prefix, count |-> 0]

incr(c) == [value |-> Append(c.prefix, c.count),
            counter |-> [c EXCEPT !.count = c.count + 1]]

level(c) == Counter(Append(c.prefix, c.count))

\* ---- small helpers on maps (functions with a dynamic domain) ----
EmptyMap == <<>>

MapSet(m, k, v) == [x \in (DOMAIN m) \cup {k} |-> IF x = k THEN v ELSE m[x]]

MapDelete(m, k) == [x \in (DOMAIN m) \ {k} |-> m[x]]

Range(s) == {s[i] : i \in DOMAIN s}

VARIABLES
    hasState,        \* renderState.has(registry)
    root,            \* state.root
    children,        \* state.children    : Key -> Key[]
    handles,         \* state.handles     : Key -> Handle
    projectorKeys,   \* state.projectorKeys : string -> Key
    projectors,      \* state.projectors  : Key -> Projector
    widgetKeys,      \* state.widgetKeys  : Identifier -> Key
    widgets,         \* state.widgets     : Key -> WidgetLike
    keyValue,        \* heap of Key objects: keyValue[k] is k.value
    projectorObjs,   \* heap of Projector instances
    widgetObjs,      \* heap of widget instances
    getWidgetCalls,  \* every registry.getWidget() call, in call order
    cur,             \* the render() call in flight or last settled
    prev,            \* the render() call settled before cur
    handleReturned,  \* a render() has fulfilled with its Handle
    renders          \* number of render() calls so far

stateVars == <<hasState, root, children, handles, projectorKeys, projectors,
               widgetKeys, widgets>>
heapVars == <<keyValue, projectorObjs, widgetObjs>>
vars == <<hasState, root, children, handles, projectorKeys, projectors,
          widgetKeys, widgets, keyValue, projectorObjs, widgetObjs,
          getWidgetCalls, cur, prev, handleReturned, renders>>

NoRender ==
    [n |-> 0, status |-> "none", malformed |-> FALSE,
     tree |-> [projector |-> FALSE, append |-> <<>>, widget |-> ""],
     projectorKey |-> 0, projector |-> 0, slots |-> <<>>,
     callsAtStart |-> 0, childrenAtStart |-> <<>>, assigned |-> <<>>,
     assignedDone |-> FALSE, attached |-> 0, destroyed |-> <<>>,
     destroyedAtStart |-> <<>>, torn |-> FALSE, tornAfter |-> FALSE,
     rootArg |-> "", firstRoot |-> "", firstProjectorRoot |-> "",
     created |-> FALSE, levelPrefix |-> <<>>]

Init ==
    /\ hasState = FALSE
    /\ root = ""
    /\ children = EmptyMap
    /\ handles = EmptyMap
    /\ projectorKeys = EmptyMap
    /\ projectors = EmptyMap
    /\ widgetKeys = EmptyMap
    /\ widgets = EmptyMap
    /\ keyValue = <<>>
    /\ projectorObjs = <<>>
    /\ widgetObjs = <<>>
    /\ getWidgetCalls = <<>>
    /\ cur = NoRender
    /\ prev = NoRender
    /\ handleReturned = FALSE
    /\ renders = 0

\* ---- the Handle objects stored in state.handles ----
\* A projector handle (lines 118-122) deletes projectorKeys[projectorKey.value];
\* a widget handle (lines 156-161) calls widget.destroy() and deletes
\* widgetKeys[key.value].  st carries the maps and the heap a handle touches.
ProjectorHandle(key) == [type |-> "projector", key |-> key, widget |-> 0]

WidgetHandle(key, widget) == [type |-> "widget", key |-> key, widget |-> widget]

\* Mutant: a widget handle forgets to call widget.destroy().
RunHandle_noDestroy(h, st) ==
    IF h.type = "projector"
    THEN [st EXCEPT !.projectorKeys = MapDelete(st.projectorKeys, keyValue[h.key])]
    ELSE [st EXCEPT !.widgetKeys = MapDelete(st.widgetKeys, keyValue[h.key])]

\* Mutant: a widget handle leaves its Key in widgetKeys.
RunHandle_keep(h, st) ==
    IF h.type = "projector"
    THEN [st EXCEPT !.projectorKeys = MapDelete(st.projectorKeys, keyValue[h.key])]
    ELSE [st EXCEPT
            !.widgetObjs = [st.widgetObjs EXCEPT
                              ![h.widget].destroyed = st.widgetObjs[h.widget].destroyed + 1],
            !.log = Append(st.log, h.widget)]

RunHandle(h, st) ==
    IF h.type = "projector"
    THEN [st EXCEPT !.projectorKeys = MapDelete(st.projectorKeys, keyValue[h.key])]
    ELSE [st EXCEPT
            !.widgetObjs = [st.widgetObjs EXCEPT
                              ![h.widget].destroyed = st.widgetObjs[h.widget].destroyed + 1],
            !.widgetKeys = MapDelete(st.widgetKeys, keyValue[h.key]),
            !.log = Append(st.log, h.widget)]

HandleState ==
    [projectorKeys |-> projectorKeys, widgetKeys |-> widgetKeys,
     widgetObjs |-> widgetObjs, log |-> <<>>, threw |-> FALSE]

\* Mutant: a new Key is made for every requested identifier.
MapOne_newKey(acc, value, n, pos) ==
    LET key == Len(acc.keyValue) + 1
    IN  [widgetKeys |-> MapSet(acc.widgetKeys, value, key),
         keyValue |-> Append(acc.keyValue, value),
         calls |-> Append(acc.calls,
                          [value |-> value, key |-> key, render |-> n,
                           pos |-> pos, status |-> "pending", widget |-> 0]),
         slots |-> Append(acc.slots,
                          [key |-> key, widget |-> 0, call |-> Len(acc.calls) + 1])]

\* ---- updateProjectorChildren, the append.map() callback (lines 143-164) ----
\* acc carries widgetKeys, keyValue, getWidgetCalls and the mapped array.
MapOne(acc, value, n, pos) ==
    LET has == value \in DOMAIN acc.widgetKeys
        key == IF has THEN acc.widgetKeys[value] ELSE Len(acc.keyValue) + 1
        kv == IF has THEN acc.keyValue ELSE Append(acc.keyValue, value)
        wk == IF has THEN acc.widgetKeys ELSE MapSet(acc.widgetKeys, value, key)
    IN  IF key \in DOMAIN widgets
        THEN [widgetKeys |-> wk, keyValue |-> kv, calls |-> acc.calls,
              slots |-> Append(acc.slots,
                               [key |-> key, widget |-> widgets[key], call |-> 0])]
        ELSE [widgetKeys |-> wk, keyValue |-> kv,
              calls |-> Append(acc.calls,
                               [value |-> value, key |-> key, render |-> n,
                                pos |-> pos, status |-> "pending", widget |-> 0]),
              slots |-> Append(acc.slots,
                               [key |-> key, widget |-> 0,
                                call |-> Len(acc.calls) + 1])]

RECURSIVE MapAppend(_, _, _, _)
MapAppend(acc, append, n, i) ==
    IF i > Len(append) THEN acc
    ELSE MapAppend(MapOne(acc, append[i], n, i), append, n, i + 1)

\* The record kept of the render() call before the current one; the roots it
\* was called with are carried on by the current record only.
Archive(render) ==
    [render EXCEPT !.rootArg = "", !.firstRoot = "", !.firstProjectorRoot = ""]

Settled == cur.status \in {"none", "fulfilled", "rejected"}

\* ---- render(), rejected for a tree that is no projector (lines 65-67) ----
RenderMalformed(rt, tree) ==
    /\ Settled
    /\ ~isSceneProjector(tree)
    /\ renders' = renders + 1
    /\ prev' = Archive(cur)
    /\ cur' = [NoRender EXCEPT !.n = renders + 1, !.status = "rejected",
                               !.malformed = TRUE, !.tree = tree,
                               !.rootArg = rt,
                               !.firstRoot =
                                   IF renders = 0 THEN rt ELSE cur.firstRoot,
                               !.firstProjectorRoot = cur.firstProjectorRoot,
                               !.callsAtStart = Len(getWidgetCalls),
                               !.destroyedAtStart =
                                   [w \in DOMAIN widgetObjs |-> widgetObjs[w].destroyed]]
    /\ UNCHANGED <<stateVars, heapVars, getWidgetCalls, handleReturned>>

\* Mutant: the root of the current call replaces the stored one.
StateRoot_latest(rt) == rt

\* state.root of `renderState.get(registry) || { root, ... }` (lines 69-70).
StateRoot(rt) == IF hasState THEN root ELSE rt

\* ---- render() + update() + the synchronous part of                   ----
\* ---- updateProjectorChildren() (lines 69-82, 107-125, 143-166)       ----
RenderStart(rt, tree) ==
    /\ Settled
    /\ isSceneProjector(tree)
    /\ LET n == renders + 1
           counter == Counter(<<>>)
           projectorId == incr(counter).value
           hasKey == projectorId \in DOMAIN projectorKeys
           projectorKey == IF hasKey THEN projectorKeys[projectorId]
                           ELSE Len(keyValue) + 1
           kv1 == IF hasKey THEN keyValue ELSE Append(keyValue, projectorId)
           hasProj == projectorKey \in DOMAIN projectors
           stateRoot == StateRoot(rt)
           incremented == incr(counter).counter
           projector == IF hasProj THEN projectors[projectorKey]
                        ELSE Len(projectorObjs) + 1
           mapped == MapAppend([widgetKeys |-> widgetKeys, keyValue |-> kv1,
                                calls |-> getWidgetCalls, slots |-> <<>>],
                               tree.append, n, 1)
       IN  /\ hasState' = TRUE
           /\ root' = stateRoot
           /\ projectorKeys' = IF hasKey THEN projectorKeys
                               ELSE MapSet(projectorKeys, projectorId, projectorKey)
           /\ projectors' = IF hasProj THEN projectors
                            ELSE MapSet(projectors, projectorKey, projector)
           /\ projectorObjs' =
                 IF hasProj THEN projectorObjs
                 ELSE Append(projectorObjs,
                             [root |-> stateRoot, children |-> <<>>,
                              attached |-> 0, destroyed |-> 0])
           /\ children' = IF hasProj THEN children
                          ELSE MapSet(children, projectorKey, <<>>)
           /\ handles' = IF hasProj THEN handles
                         ELSE MapSet(handles, projectorKey,
                                     ProjectorHandle(projectorKey))
           /\ widgetKeys' = mapped.widgetKeys
           /\ keyValue' = mapped.keyValue
           /\ getWidgetCalls' = mapped.calls
           /\ renders' = n
           /\ prev' = Archive(cur)
           /\ cur' = [NoRender EXCEPT
                        !.n = n, !.status = "resolving", !.tree = tree,
                        !.rootArg = rt,
                        !.firstRoot = IF renders = 0 THEN rt ELSE cur.firstRoot,
                        !.firstProjectorRoot =
                            IF hasState THEN cur.firstProjectorRoot ELSE rt,
                        !.created = ~hasProj,
                        !.levelPrefix = level(incremented).prefix,
                        !.projectorKey = projectorKey, !.projector = projector,
                        !.slots = mapped.slots,
                        !.callsAtStart = Len(getWidgetCalls),
                        !.destroyedAtStart =
                            [w \in DOMAIN widgetObjs |-> widgetObjs[w].destroyed],
                        !.childrenAtStart =
                            IF hasProj THEN projectorObjs[projector].children
                            ELSE <<>>]
    /\ UNCHANGED <<widgets, widgetObjs, handleReturned>>

\* Mutant: results are collected in the order the resolutions complete.
FillSlot_completionOrder(slots, call, widget) ==
    LET i == CHOOSE k \in DOMAIN slots :
                /\ slots[k].widget = 0
                /\ \A j \in DOMAIN slots : j < k => slots[j].widget # 0
    IN  [slots EXCEPT ![i].widget = widget]

\* Promise.all (line 166) keeps every result at the index of its promise.
FillSlot(slots, call, widget) == [slots EXCEPT ![call.pos].widget = widget]

\* Mutant: a rejection is swallowed and its element counts as settled.
RejectAll_swallow(render, call) ==
    [render EXCEPT !.slots[call.pos].widget = -1]

\* A rejected element rejects Promise.all (line 166): the then-callbacks of
\* lines 167, 126 and 83 never run for this render.
RejectAll(render, call) == [render EXCEPT !.status = "rejected"]

\* Mutant: the widget is stored without its handle.
InstallHandle_skip(h, key, widget) == h

\* state.handles.set(key, { destroy() ... }) of lines 156-161.
InstallHandle(h, key, widget) == MapSet(h, key, WidgetHandle(key, widget))

\* ---- registry.getWidget(value) fulfils: the then-callback, lines 154-163 ----
ResolveWith(c, widget, objs) ==
    /\ c \in DOMAIN getWidgetCalls
    /\ getWidgetCalls[c].status = "pending"
    /\ LET call == getWidgetCalls[c]
       IN  /\ widgetObjs' = objs
           /\ widgets' = MapSet(widgets, call.key, widget)
           /\ handles' = InstallHandle(handles, call.key, widget)
           /\ getWidgetCalls' = [getWidgetCalls EXCEPT ![c].status = "fulfilled",
                                                       ![c].widget = widget]
           /\ cur' = IF call.render = cur.n /\ cur.status = "resolving"
                     THEN [cur EXCEPT !.slots = FillSlot(cur.slots, call, widget)]
                     ELSE cur
    /\ UNCHANGED <<hasState, root, children, projectorKeys, projectors,
                   widgetKeys, keyValue, projectorObjs, prev, handleReturned,
                   renders>>

\* The registry constructs a new instance for the call.
ResolveWidget(c) ==
    /\ c \in DOMAIN getWidgetCalls
    /\ ResolveWith(c, Len(widgetObjs) + 1,
                   Append(widgetObjs,
                          [value |-> getWidgetCalls[c].value, call |-> c,
                           destroyed |-> 0, returned |-> 1]))

\* The registry hands out again an instance it returned for the same
\* identifier before (the case of the comment at lines 172-177).
ResolveShared(c, w) ==
    /\ c \in DOMAIN getWidgetCalls
    /\ w \in DOMAIN widgetObjs
    /\ widgetObjs[w].value = getWidgetCalls[c].value
    /\ ResolveWith(c, w, [widgetObjs EXCEPT ![w].returned = widgetObjs[w].returned + 1])

\* Mutant: a failed resolution also drops the Key recorded for its identifier.
RejectWidget_evict(c) ==
    /\ c \in DOMAIN getWidgetCalls
    /\ getWidgetCalls[c].status = "pending"
    /\ getWidgetCalls' = [getWidgetCalls EXCEPT ![c].status = "rejected"]
    /\ cur' = IF getWidgetCalls[c].render = cur.n /\ cur.status = "resolving"
              THEN [cur EXCEPT !.status = "rejected"]
              ELSE cur
    /\ widgetKeys' = MapDelete(widgetKeys, getWidgetCalls[c].value)
    /\ UNCHANGED <<hasState, root, children, handles, projectorKeys, projectors,
                   widgets, heapVars, prev, handleReturned, renders>>

\* ---- registry.getWidget(value) rejects: Promise.all rejects (line 166) and ----
\* ---- the then-callbacks of lines 126, 83 are skipped                      ----
RejectWidget(c) ==
    /\ c \in DOMAIN getWidgetCalls
    /\ getWidgetCalls[c].status = "pending"
    /\ getWidgetCalls' = [getWidgetCalls EXCEPT ![c].status = "rejected"]
    /\ cur' = IF getWidgetCalls[c].render = cur.n /\ cur.status = "resolving"
              THEN RejectAll(cur, getWidgetCalls[c])
              ELSE cur
    /\ UNCHANGED <<stateVars, heapVars, prev, handleReturned, renders>>

\* Promise.all(children) fulfils once every element is a Child.
AllResolved(slots) == \A i \in DOMAIN slots : slots[i].widget # 0

\* ---- the loop of lines 170-180 over previousKeys ----
RECURSIVE DestroyRemoved(_, _, _, _)
DestroyRemoved(previousKeys, i, newKeys, st) ==
    IF i > Len(previousKeys) \/ st.threw THEN st
    ELSE LET key == previousKeys[i]
         IN  IF key \in Range(newKeys)
             THEN DestroyRemoved(previousKeys, i + 1, newKeys, st)
             ELSE IF key \notin DOMAIN handles
                  THEN [st EXCEPT !.threw = TRUE]
                  ELSE DestroyRemoved(previousKeys, i + 1, newKeys,
                                      RunHandle(handles[key], st))

\* ---- the then-callback of Promise.all, lines 167-183 ----
CommitChildren ==
    /\ cur.status = "resolving"
    /\ AllResolved(cur.slots)
    /\ LET newKeys == [i \in DOMAIN cur.slots |-> cur.slots[i].key]
           previousKeys == children[cur.projectorKey]
           st == DestroyRemoved(previousKeys, 1, newKeys, HandleState)
           list == [i \in DOMAIN cur.slots |-> cur.slots[i].widget]
       IN  /\ projectorKeys' = st.projectorKeys
           /\ widgetKeys' = st.widgetKeys
           /\ widgetObjs' = st.widgetObjs
           /\ projectorObjs' =
                 IF st.threw THEN projectorObjs
                 ELSE [projectorObjs EXCEPT ![cur.projector].children = list]
           /\ cur' = IF st.threw
                     THEN [cur EXCEPT !.status = "rejected", !.destroyed = st.log]
                     ELSE [cur EXCEPT !.status = "committed", !.assigned = list,
                                      !.assignedDone = TRUE,
                                      !.destroyed = st.log]
    /\ UNCHANGED <<hasState, root, children, handles, projectors, widgets,
                   keyValue, getWidgetCalls, prev, handleReturned, renders>>

\* Mutant: attach() is not chained on the children's promise.
CanAttach_early(render) == render.status \in {"resolving", "committed"}

\* update() chains attach() on the promise of updateProjectorChildren (line 126).
CanAttach(render) == render.status = "committed"

\* ---- the then-callback of update(), lines 126-128 ----
AttachProjector ==
    /\ CanAttach(cur)
    /\ projectorObjs' = [projectorObjs EXCEPT
                           ![cur.projector].attached =
                               projectorObjs[cur.projector].attached + 1]
    /\ cur' = [cur EXCEPT !.status = "attached", !.attached = cur.attached + 1]
    /\ UNCHANGED <<stateVars, keyValue, widgetObjs, getWidgetCalls, prev,
                   handleReturned, renders>>

\* ---- the then-callback of render(), lines 83-98: the Handle is returned ----
ReturnHandle ==
    /\ cur.status = "attached"
    /\ cur' = [cur EXCEPT !.status = "fulfilled"]
    /\ handleReturned' = TRUE
    /\ UNCHANGED <<stateVars, heapVars, getWidgetCalls, prev, renders>>

\* ---- Handle.destroy(), lines 85-96 ----
\* forEach over a Map visits the entries present when they are reached; every
\* handle deletes at most its own entry, so the visit order is immaterial.
RECURSIVE DestroyEach(_, _)
DestroyEach(keys, st) ==
    IF keys = {} THEN st
    ELSE LET key == CHOOSE k \in keys : TRUE
         IN  DestroyEach(keys \ {key},
                         IF key \in DOMAIN handles
                         THEN RunHandle(handles[key], st)
                         ELSE st)

HandleDestroy ==
    /\ handleReturned
    /\ LET st1 == DestroyEach(Range(projectorKeys), HandleState)
           st2 == DestroyEach(Range(widgetKeys), st1)
       IN  /\ projectorKeys' = st2.projectorKeys
           /\ widgetKeys' = st2.widgetKeys
           /\ widgetObjs' = st2.widgetObjs
    /\ cur' = [cur EXCEPT !.torn = TRUE,
                           !.tornAfter = (cur.tornAfter \/ cur.status = "fulfilled")]
    /\ UNCHANGED <<hasState, root, children, handles, projectors, widgets,
                   keyValue, projectorObjs, getWidgetCalls, prev,
                   handleReturned, renders>>

Next ==
    \/ \E rt \in Roots, tree \in Trees :
          renders < MaxRenders /\ RenderMalformed(rt, tree)
    \/ \E rt \in Roots, tree \in Trees :
          renders < MaxRenders /\ RenderStart(rt, tree)
    \/ \E c \in DOMAIN getWidgetCalls : ResolveWidget(c)
    \/ \E c \in DOMAIN getWidgetCalls : RejectWidget(c)
    \/ CommitChildren
    \/ AttachProjector
    \/ ReturnHandle
    \/ HandleDestroy

Spec == Init /\ [][Next]_vars

\* The same program rendering the longer append lists.
NextWide ==
    \/ \E rt \in Roots, tree \in WideTrees :
          renders < WideRenders /\ RenderMalformed(rt, tree)
    \/ \E rt \in Roots, tree \in WideTrees :
          renders < WideRenders /\ RenderStart(rt, tree)
    \/ \E c \in DOMAIN getWidgetCalls : ResolveWidget(c)
    \/ \E c \in DOMAIN getWidgetCalls : RejectWidget(c)
    \/ CommitChildren
    \/ AttachProjector
    \/ ReturnHandle
    \/ HandleDestroy

SpecWide == Init /\ [][NextWide]_vars

\* The same program against a registry that may return an instance again.
NextShared ==
    \/ \E rt \in Roots, tree \in SharedTrees :
          renders < SharedRenders /\ RenderMalformed(rt, tree)
    \/ \E rt \in Roots, tree \in SharedTrees :
          renders < SharedRenders /\ RenderStart(rt, tree)
    \/ \E c \in DOMAIN getWidgetCalls : ResolveWidget(c)
    \/ \E c \in DOMAIN getWidgetCalls, w \in DOMAIN widgetObjs : ResolveShared(c, w)
    \/ \E c \in DOMAIN getWidgetCalls : RejectWidget(c)
    \/ CommitChildren
    \/ AttachProjector
    \/ ReturnHandle
    \/ HandleDestroy

SpecShared == Init /\ [][NextShared]_vars

\* ======================= properties =======================

Requested(render) == Range(render.tree.append)

CallsOf(n, x) ==
    {c \in DOMAIN getWidgetCalls :
        getWidgetCalls[c].render = n /\ getWidgetCalls[c].value = x}

Fulfilled(render) == render.status = "fulfilled"

\* C1 (Removal): when a fulfilled render listed an identifier and the next
\* fulfilled render does not, with no teardown in between, the next render
\* invokes destroy() on the instance the first one mounted for it.
C1_Removal ==
    (Fulfilled(prev) /\ Fulfilled(cur) /\ ~prev.torn /\ ~cur.torn)
    => \A i \in DOMAIN prev.tree.append :
          prev.tree.append[i] \notin Requested(cur)
          => prev.assigned[i] \in Range(cur.destroyed)

\* C2 (Identity stability): the same tree rendered twice in sequence on a new
\* registry mounts the same instances both times and getWidget is called
\* exactly once per identifier over the two renders.
C2_IdentityStability ==
    (prev.n = 1 /\ Fulfilled(prev) /\ Fulfilled(cur) /\ ~prev.torn
       /\ cur.tree = prev.tree)
    => /\ cur.assigned = prev.assigned
       /\ \A x \in Requested(cur) :
             Cardinality(CallsOf(prev.n, x) \cup CallsOf(cur.n, x)) = 1

\* C3 (Single resolution): within one reconciliation pass getWidget is called
\* at most once per identifier.
C3_SingleResolution ==
    \A c1, c2 \in DOMAIN getWidgetCalls :
        (c1 # c2 /\ getWidgetCalls[c1].render = getWidgetCalls[c2].render)
        => getWidgetCalls[c1].value # getWidgetCalls[c2].value

\* C4 (Duplicate identifiers): the assigned child collection has one element
\* per requested position, and positions requesting the same identifier hold
\* the same Key and the same widget instance.
C4_DuplicatesShareInstance ==
    cur.assignedDone
    => /\ Len(cur.assigned) = Len(cur.tree.append)
       /\ \A i, j \in DOMAIN cur.tree.append :
             cur.tree.append[i] = cur.tree.append[j]
             => /\ cur.slots[i].key = cur.slots[j].key
                /\ cur.assigned[i] = cur.assigned[j]

\* C5 (Order preservation): the child collection a render assigns holds, at
\* every position i, an instance resolved for the i-th requested identifier
\* (the one its own getWidget call produced, when it made one), whatever the
\* order in which the resolutions completed.
C5_OrderPreserved ==
    cur.assignedDone
    => /\ projectorObjs[cur.projector].children = cur.assigned
       /\ Len(cur.assigned) = Len(cur.tree.append)
       /\ \A i \in DOMAIN cur.tree.append :
             /\ cur.assigned[i] \in DOMAIN widgetObjs
             /\ widgetObjs[cur.assigned[i]].value = cur.tree.append[i]
             /\ cur.slots[i].call # 0
                => getWidgetCalls[cur.slots[i].call].widget = cur.assigned[i]

\* Three children were mounted and the middle one resolved last.
C5_Witness ==
    /\ cur.assignedDone
    /\ Len(cur.assigned) = 3
    /\ cur.assigned[2] > cur.assigned[1]
    /\ cur.assigned[2] > cur.assigned[3]

\* C6 (Teardown): after the first render fulfilled and its Handle's destroy()
\* ran, every mounted widget instance and the projector instance have been
\* destroyed exactly once.
C6_Teardown ==
    (cur.n = 1 /\ Fulfilled(cur) /\ cur.tornAfter)
    => /\ \A i \in DOMAIN cur.assigned :
             widgetObjs[cur.assigned[i]].destroyed = 1
       /\ projectorObjs[cur.projector].destroyed = 1

\* C7 (Failed render is non-destructive): a render one of whose resolutions
\* rejected is rejected; a rejected render has destroyed no widget instance
\* and has left the projector's child collection as it found it, which is what
\* the preceding fulfilled render on that projector assigned.
C7_FailedRenderNonDestructive ==
    /\ (\E c \in DOMAIN getWidgetCalls :
           /\ getWidgetCalls[c].render = cur.n
           /\ getWidgetCalls[c].status = "rejected")
       => cur.status = "rejected"
    /\ (cur.status = "rejected" /\ ~cur.malformed)
       => /\ cur.destroyed = <<>>
          /\ ~cur.assignedDone
          /\ projectorObjs[cur.projector].children = cur.childrenAtStart
          /\ (Fulfilled(prev) /\ prev.projector = cur.projector)
             => projectorObjs[cur.projector].children = prev.assigned
          /\ ~cur.torn
             => \A w \in DOMAIN widgetObjs :
                   widgetObjs[w].destroyed =
                      IF w \in DOMAIN cur.destroyedAtStart
                      THEN cur.destroyedAtStart[w] ELSE 0

\* A render failed after a fulfilled one had mounted a widget on the same
\* projector, and another resolution of the failed render completed.
C7_Witness ==
    /\ cur.status = "rejected"
    /\ ~cur.malformed
    /\ Fulfilled(prev)
    /\ prev.projector = cur.projector
    /\ prev.assigned # <<>>
    /\ ~cur.torn
    /\ \E c \in DOMAIN getWidgetCalls :
          getWidgetCalls[c].render = cur.n /\ getWidgetCalls[c].status = "rejected"

\* C8 (Malformed input): a render() call whose root element is no projector
\* is rejected at once, starts no getWidget call, creates no RenderState and
\* leaves every map of an existing RenderState as it was.
C8_MalformedRejects ==
    [][(renders' = renders + 1 /\ ~cur'.tree.projector)
       => /\ cur'.status = "rejected"
          /\ hasState' = hasState
          /\ getWidgetCalls' = getWidgetCalls
          /\ UNCHANGED <<root, children, handles, projectorKeys, projectors,
                         widgetKeys, widgets, keyValue, projectorObjs,
                         widgetObjs>>]_vars

\* A malformed render was rejected on a registry without RenderState.
C8_Witness ==
    /\ cur.malformed
    /\ ~cur.tree.projector
    /\ cur.status = "rejected"
    /\ ~hasState
    /\ projectorKeys = EmptyMap /\ widgetKeys = EmptyMap

\* C9 (Retry after failure): when a resolution of X rejected in a render, the
\* next render requesting X calls getWidget for X again.
C9_RetryAfterFailure ==
    (prev.status = "rejected" /\ cur.tree.projector /\ cur.status # "none")
    => \A x \in Requested(cur) :
          (\E c \in CallsOf(prev.n, x) : getWidgetCalls[c].status = "rejected")
          => CallsOf(cur.n, x) # {}

\* C10 (Attach per render): a render attaches at most once, only after it has
\* assigned the child collection, has attached exactly once when it fulfils
\* and never when it is rejected; an identical tree rendered twice in sequence
\* attaches once per render and the second render calls getWidget for nothing.
C10_AttachPerRender ==
    /\ cur.attached <= 1
    /\ cur.status \in {"attached", "fulfilled"} => cur.attached = 1
    /\ cur.attached >= 1
       => /\ cur.assignedDone
          /\ projectorObjs[cur.projector].children = cur.assigned
    /\ cur.status \in {"resolving", "committed", "rejected"} => cur.attached = 0
    /\ (Fulfilled(prev) /\ Fulfilled(cur) /\ ~prev.torn /\ cur.tree = prev.tree)
       => /\ prev.attached = 1
          /\ cur.attached = 1
          /\ cur.projector = prev.projector
          /\ projectorObjs[cur.projector].attached >= 2
          /\ \A c \in DOMAIN getWidgetCalls : getWidgetCalls[c].render # cur.n

\* The same non-empty tree was rendered twice in sequence and both fulfilled.
C10_Witness ==
    /\ Fulfilled(prev)
    /\ Fulfilled(cur)
    /\ ~prev.torn
    /\ cur.tree = prev.tree
    /\ cur.tree.append # <<>>
    /\ projectorObjs[cur.projector].attached = 2

\* C11 as claimed (Fixed root): state.root and the root of every projector
\* created are the root passed to the first render() call on the registry.
C11_RootOfFirstRender ==
    hasState
    => /\ root = cur.firstRoot
       /\ \A p \in DOMAIN projectorObjs : projectorObjs[p].root = cur.firstRoot

\* C11 as amended (Fixed root): state.root is the root passed to the first
\* render() call whose tree is a projector, no step changes it once the
\* RenderState exists, and every projector ever created has that root.
C11_FixedRoot ==
    [][/\ hasState => (hasState' /\ root' = root)
       /\ hasState'
          => /\ root' = cur'.firstProjectorRoot
             /\ \A p \in DOMAIN projectorObjs' :
                   projectorObjs'[p].root = cur'.firstProjectorRoot]_vars

\* After a teardown a render called with another root created a second
\* projector.
C11_Witness ==
    /\ hasState
    /\ Len(projectorObjs) = 2
    /\ cur.created
    /\ cur.rootArg # root
    /\ projectorObjs[cur.projector].root = root

\* C12 (Children commit): once a render has assigned the projector's child
\* collection, state.children of the projector's Key is the list of the Keys
\* of the requested identifiers in requested order.
C12_ChildrenCommit ==
    cur.assignedDone
    => children[cur.projectorKey] = [i \in DOMAIN cur.slots |-> cur.slots[i].key]

RejectedCalls(n) ==
    {c \in DOMAIN getWidgetCalls :
        getWidgetCalls[c].render = n /\ getWidgetCalls[c].status = "rejected"}

\* C13 as claimed (No Key on failed resolution): after a resolution of X
\* failed in the current render, the render is rejected, widgetKeys holds no
\* Key for X and handles holds no handle for X's Key.
C13_NoKeyOnFailure ==
    \A c \in RejectedCalls(cur.n) :
        /\ cur.status = "rejected"
        /\ getWidgetCalls[c].value \notin DOMAIN widgetKeys
        /\ getWidgetCalls[c].key \notin DOMAIN handles

\* What holds after a step, for the failed resolutions of the current render.
C13_AfterFailure ==
    \A c \in RejectedCalls(cur.n) :
        /\ cur.status = "rejected"
        /\ \A k \in {getWidgetCalls[c].key} :
              (k \in DOMAIN handles \/ k \in DOMAIN widgets)
              => \E d \in DOMAIN getWidgetCalls :
                    /\ getWidgetCalls[d].key = k
                    /\ getWidgetCalls[d].status = "fulfilled"
        /\ ~cur.torn
           => /\ getWidgetCalls[c].value \in DOMAIN widgetKeys
              /\ widgetKeys[getWidgetCalls[c].value] = getWidgetCalls[c].key

\* C13 as amended (No handle on failed resolution): a failing resolution of X
\* rejects its render and changes none of widgetKeys, widgets and handles;
\* afterwards widgets and handles hold an entry for X's Key only if another
\* resolution for that Key fulfilled, and widgetKeys keeps the Key recorded
\* for X when it was requested (until a teardown).
C13_FailureInstallsNothing ==
    [][/\ (\E c \in DOMAIN getWidgetCalls :
              /\ getWidgetCalls[c].status = "pending"
              /\ getWidgetCalls'[c].status = "rejected")
          => UNCHANGED <<widgetKeys, widgets, handles>>
       /\ C13_AfterFailure']_vars

\* A resolution failed, its render is rejected, and the Key of its identifier
\* is still in widgetKeys without a handle.
C13_Witness ==
    \E c \in RejectedCalls(cur.n) :
        /\ cur.status = "rejected"
        /\ ~cur.torn
        /\ widgetKeys[getWidgetCalls[c].value] = getWidgetCalls[c].key
        /\ getWidgetCalls[c].key \notin DOMAIN handles

\* C14 as claimed (Handle eviction): when a handle is invoked (its Key leaves
\* widgetKeys or projectorKeys), the Key has no entry left in widgets and
\* handles, respectively in projectors, children and handles.
C14_HandleEviction ==
    [][/\ \A x \in DOMAIN widgetKeys :
             x \notin DOMAIN widgetKeys'
             => /\ widgetKeys[x] \notin DOMAIN widgets'
                /\ widgetKeys[x] \notin DOMAIN handles'
       /\ \A x \in DOMAIN projectorKeys :
             x \notin DOMAIN projectorKeys'
             => /\ projectorKeys[x] \notin DOMAIN projectors'
                /\ projectorKeys[x] \notin DOMAIN children'
                /\ projectorKeys[x] \notin DOMAIN handles']_vars

\* C14 as amended (Handle eviction): invoking the handle of a widget Key
\* destroys its widget once and removes the identifier from widgetKeys only;
\* the entries of the Key in widgets and handles stay as they were.  Invoking
\* the handle of a projector Key removes its path from projectorKeys only; the
\* entries of the Key in projectors, children and handles stay.
C14_HandleEvictsKeyMapOnly ==
    [][/\ \A x \in DOMAIN widgetKeys :
             x \notin DOMAIN widgetKeys'
             => LET k == widgetKeys[x]
                IN  /\ k \in DOMAIN handles /\ k \in DOMAIN widgets
                    /\ k \in DOMAIN handles' /\ handles'[k] = handles[k]
                    /\ k \in DOMAIN widgets' /\ widgets'[k] = widgets[k]
                    /\ widgetObjs'[handles[k].widget].destroyed =
                          widgetObjs[handles[k].widget].destroyed + 1
       /\ \A x \in DOMAIN projectorKeys :
             x \notin DOMAIN projectorKeys'
             => LET k == projectorKeys[x]
                IN  /\ k \in DOMAIN projectors' /\ projectors'[k] = projectors[k]
                    /\ k \in DOMAIN children' /\ children'[k] = children[k]
                    /\ k \in DOMAIN handles' /\ handles'[k] = handles[k]]_vars

\* A teardown has removed a widget Key and the projector Key from the key
\* maps; both still have their entries in the weak maps.
C14_Witness ==
    /\ cur.torn
    /\ projectorKeys = EmptyMap
    /\ \E k \in DOMAIN widgets :
          /\ k \notin Range(widgetKeys)
          /\ k \in DOMAIN handles
          /\ widgetObjs[handles[k].widget].destroyed = 1
    /\ \E k \in DOMAIN projectors : k \in DOMAIN children /\ k \in DOMAIN handles

\* C15 (Handle coverage): every Key with an entry in projectors or in widgets
\* has an entry in handles.
C15_HandleCoverage ==
    /\ \A k \in DOMAIN projectors :
          k \in DOMAIN handles /\ handles[k].type = "projector"
    /\ \A k \in DOMAIN widgets :
          /\ k \in DOMAIN handles
          /\ handles[k].type = "widget"
          /\ handles[k].widget = widgets[k]

\* A projector and two widgets are recorded, one of them replaced by a later
\* resolution for the same Key.
C15_Witness ==
    /\ DOMAIN projectors # {}
    /\ Cardinality(DOMAIN widgets) >= 1
    /\ \E c, d \in DOMAIN getWidgetCalls :
          /\ c # d
          /\ getWidgetCalls[c].key = getWidgetCalls[d].key
          /\ getWidgetCalls[c].status = "fulfilled"
          /\ getWidgetCalls[d].status = "fulfilled"

\* C16 (Key reuse): a render() call keeps every Key already recorded for the
\* projector path and for the identifiers, uses the recorded Key for each
\* requested identifier, creates Keys only for what had none, and reuses the
\* projector of a recorded projector Key; a Key leaves widgetKeys or
\* projectorKeys only in a step that invokes handles and only if it has one.
C16_KeyReuse ==
    [][/\ renders' = renders + 1
          => /\ \A x \in DOMAIN widgetKeys :
                   x \in DOMAIN widgetKeys' /\ widgetKeys'[x] = widgetKeys[x]
             /\ \A x \in DOMAIN projectorKeys :
                   x \in DOMAIN projectorKeys' /\ projectorKeys'[x] = projectorKeys[x]
             /\ cur'.tree.projector
                => /\ \A i \in DOMAIN cur'.slots :
                         cur'.slots[i].key = widgetKeys'[cur'.tree.append[i]]
                   /\ cur'.projectorKey = projectorKeys'[<<0>>]
                   /\ Len(keyValue') =
                         Len(keyValue)
                         + Cardinality(Range(cur'.tree.append) \ DOMAIN widgetKeys)
                         + (IF <<0>> \in DOMAIN projectorKeys THEN 0 ELSE 1)
                   /\ <<0>> \in DOMAIN projectorKeys
                      => /\ cur'.projector = projectors[projectorKeys[<<0>>]]
                         /\ projectorObjs' = projectorObjs
       /\ \A x \in DOMAIN widgetKeys :
             (x \notin DOMAIN widgetKeys' \/ widgetKeys'[x] # widgetKeys[x])
             => /\ HandleDestroy \/ CommitChildren
                /\ widgetKeys[x] \in DOMAIN handles
       /\ \A x \in DOMAIN projectorKeys :
             (x \notin DOMAIN projectorKeys' \/ projectorKeys'[x] # projectorKeys[x])
             => /\ HandleDestroy \/ CommitChildren
                /\ projectorKeys[x] \in DOMAIN handles]_vars

\* A second render found the projector Key and the Key of a requested
\* identifier recorded and used them.
C16_Witness ==
    /\ cur.n >= 2
    /\ cur.tree.projector
    /\ ~cur.created
    /\ cur.projectorKey = prev.projectorKey
    /\ cur.projector = prev.projector
    /\ Len(projectorObjs) = 1
    /\ \E i \in DOMAIN cur.slots, j \in DOMAIN prev.slots :
          cur.slots[i].key = prev.slots[j].key

\* C17 as claimed (At-most-once destroy): destroy() has been invoked at most
\* once on every widget instance.
C17_DestroyAtMostOnce ==
    \A w \in DOMAIN widgetObjs : widgetObjs[w].destroyed <= 1

\* C17 as amended (At-most-once destroy): destroy() has been invoked on a
\* widget instance at most as often as the registry returned that instance,
\* hence at most once on an instance the registry returned once.
C17_DestroyAtMostOncePerResolution ==
    \A w \in DOMAIN widgetObjs : widgetObjs[w].destroyed <= widgetObjs[w].returned

\* Handle.destroy() was invoked during the previous render's life and again
\* after the current render started, and a widget destroyed by the first
\* invocation is still destroyed exactly once.
C17_Witness ==
    /\ prev.torn
    /\ cur.torn
    /\ \E w \in DOMAIN cur.destroyedAtStart :
          /\ cur.destroyedAtStart[w] = 1
          /\ widgetObjs[w].destroyed = 1
          /\ widgetObjs[w].returned = 1

NoPendingCall ==
    \A c \in DOMAIN getWidgetCalls : getWidgetCalls[c].status # "pending"

\* C18 (No leaked instance): when every resolution has settled and no render
\* is in flight, an invocation of a returned Handle's destroy() leaves no
\* resolved widget instance on which destroy() was never invoked.
C18_NoLeakedInstance ==
    [][(HandleDestroy /\ NoPendingCall /\ Settled)
       => \A w \in DOMAIN widgetObjs' : widgetObjs'[w].destroyed >= 1]_vars

\* C19 (No destroyed widget stays mounted): with no render in flight, the
\* child collection of a projector that was not destroyed itself holds no
\* widget instance on which destroy() has been invoked.
C19_NoDestroyedWidgetMounted ==
    Settled
    => \A p \in DOMAIN projectorObjs :
          projectorObjs[p].destroyed = 0
          => \A i \in DOMAIN projectorObjs[p].children :
                widgetObjs[projectorObjs[p].children[i]].destroyed = 0

IsPrefixOf(s, t) == Len(s) <= Len(t) /\ SubSeq(t, 1, Len(s)) = s

\* C20 (Path keys): the generator update() obtains with level() right after
\* incr() returned the projector's identifier P starts at zero and its first
\* identifier has P as its prefix.
C20_PathKeys ==
    (cur.tree.projector /\ cur.status # "none")
    => LET P == keyValue[cur.projectorKey]
           child == Counter(cur.levelPrefix)
       IN  /\ child.count = 0
           /\ IsPrefixOf(P, incr(child).value)
====
